---------------------------- MODULE Spec2Model ----------------------------
(***************************************************************************)
(* Model of the Anki MCP adapter: the request forwarder (ankiRequest), the *)
(* tool dispatchers of the five server variants, the direct HTTP API of    *)
(* the SSE server and the session tables of the two streaming servers.     *)
(*                                                                         *)
(* Variants:                                                               *)
(*   "stdio" src/src/simple-server.ts                                      *)
(*   "http"  src/unnamed/part_000 lines 1-267    (simple HTTP server)      *)
(*   "sse"   src/unnamed/part_000 lines 268-888  (SSE server + HTTP API)   *)
(*   "prose" src/unnamed/part_000 lines 889-1095 (stdio, prose answers)    *)
(*   "json"  src/unnamed/part_000 lines 1096-1339 (stdio, JSON answers)    *)
(***************************************************************************)
EXTENDS Integers, Sequences, FiniteSets, TLC

VARIABLES inv, server, conns, table, pool

vars == <<inv, server, conns, table, pool>>

(***************************************************************************)
(* Bounds of the model.                                                    *)
(***************************************************************************)
\* longest list of deck names the upstream answers with
MaxDecks == 2
\* largest number of card ids the upstream answers findCards with
MaxCards == 6
\* number of streaming connections that may be opened per server
MaxConn == 2
\* the most streaming connections opened while invocations run concurrently
MaxLiveConn == 1

(***************************************************************************)
(* Program constants.                                                      *)
(***************************************************************************)
\* cardIds.slice(0, 5) of the stdio servers
SampleSize == 5
\* cardIds.slice(0, 10) of the simple HTTP server
HttpSampleSize == 10
\* .slice(0, 100) and .length > 100 of the card content
ContentLimit == 100

(***************************************************************************)
(* JavaScript values, tagged by type.                                      *)
(***************************************************************************)
Undef == [t |-> "undefined"]
Null == [t |-> "null"]
Str(s) == [t |-> "string", v |-> s]
Num(n) == [t |-> "number", v |-> n]
Bool(b) == [t |-> "boolean", v |-> b]
Arr(s) == [t |-> "array", v |-> s]
Obj(r) == [t |-> "object", v |-> r]

\* JavaScript truthiness, as used by if (x), !x, x || y and x ? a : b
Truthy(x) ==
    CASE x.t = "undefined" -> FALSE
      [] x.t = "null" -> FALSE
      [] x.t = "string" -> x.v # ""
      [] x.t = "number" -> x.v # 0
      [] x.t = "boolean" -> x.v
      [] x.t = "text" -> x.v # <<>>
      [] OTHER -> TRUE

\* x || y
OrElse(x, y) == IF Truthy(x) THEN x ELSE y

\* a property read or method call on null / undefined raises a TypeError
Nullish(x) == x.t \in {"undefined", "null"}

Min(a, b) == IF a < b THEN a ELSE b
\* mutant: the difference is reported without the floor of 0
MaxSecond(a, b) == b

Max(a, b) == IF a > b THEN a ELSE b

\* mutant: slice(0, n + 1)
Slice0OneMore(s, n) == SubSeq(s, 1, Min(n + 1, Len(s)))

\* Array.prototype.slice(0, n)
Slice0(s, n) == SubSeq(s, 1, Min(n, Len(s)))

\* JSON.stringify of an object literal: keys whose value is undefined are dropped
JsonStringify(r) == [k \in {f \in DOMAIN r : r[f].t # "undefined"} |-> r[k]]


(***************************************************************************)
(* Deck names.  A name is a tuple of chunks: a chunk is either the single  *)
(* character ":" or a run of characters without ":" (no two runs are       *)
(* adjacent), so that equal tuples are equal strings.                      *)
(***************************************************************************)
\* deck.includes("::") looks for two adjacent colons at position i
SepAt(name, i) == i < Len(name) /\ name[i] = ":" /\ name[i + 1] = ":"

\* deck.includes("::")
IncludesSep(name) == \E i \in 1..Len(name) : SepAt(name, i)

\* index of the first "::" of a name that includes one
FirstSep(name) == CHOOSE i \in 1..Len(name) :
    SepAt(name, i) /\ \A j \in 1..(i - 1) : ~SepAt(name, j)

\* deck.split("::")[0]
SplitHead(name) == IF IncludesSep(name) THEN SubSeq(name, 1, FirstSep(name) - 1) ELSE name

\* decks.filter(pred), in order
RECURSIVE FilterSep(_, _)
FilterSep(decks, want) ==
    IF decks = <<>> THEN <<>>
    ELSE LET rest == FilterSep(Tail(decks), want)
         IN IF IncludesSep(Head(decks)) = want THEN <<Head(decks)>> \o rest ELSE rest

\* property names every object literal inherits from Object.prototype
ObjectPrototypeProps == {<<"constructor">>, <<"toString">>, <<"valueOf">>,
                         <<"hasOwnProperty">>, <<"isPrototypeOf">>,
                         <<"propertyIsEnumerable">>, <<"toLocaleString">>,
                         <<"__proto__">>}

\* organized[parent]: an own array, an inherited (truthy) member, or undefined
LookupProp(obj, key) ==
    IF key \in DOMAIN obj THEN Arr(obj[key])
    ELSE IF key \in ObjectPrototypeProps THEN [t |-> "inherited"]
    ELSE Undef

\* one iteration of subDecks.forEach: g is [obj, thrown]
GroupOne(g, deck) ==
    LET parent == SplitHead(deck)
        o1 == IF ~Truthy(LookupProp(g.obj, parent))
              THEN (parent :> <<>>) @@ g.obj
              ELSE g.obj
    IN IF g.thrown THEN g
       ELSE IF LookupProp(o1, parent).t = "array"
            THEN [g EXCEPT !.obj = [o1 EXCEPT ![parent] = Append(@, deck)]]
            ELSE [g EXCEPT !.thrown = TRUE]

\* subDecks.forEach(...) starting from organized = {}
RECURSIVE GroupFrom(_, _)
GroupFrom(g, subDecks) ==
    IF subDecks = <<>> THEN g
    ELSE GroupFrom(GroupOne(g, Head(subDecks)), Tail(subDecks))

EmptyObject == [k \in {} |-> <<>>]

Organize(subDecks) == GroupFrom([obj |-> EmptyObject, thrown |-> FALSE], subDecks)

(***************************************************************************)
(* Outcomes of running a handler up to its next await or its end.          *)
(***************************************************************************)
NoParams == [none |-> TRUE]
Call(action, params) == [k |-> "call", action |-> action, params |-> params]
Return(body) == [k |-> "return", body |-> body]
Throw(msg) == [k |-> "throw", msg |-> msg]

\* request.params.arguments?.field
Arg(args, f) ==
    IF Nullish(args) THEN Undef
    ELSE IF f \in DOMAIN args.v THEN args.v[f] ELSE Undef

(***************************************************************************)
(* The request forwarder.  reply is the upstream body {result, error}.     *)
(* The outcome is [thrown, v]: a rejected promise or the returned value.   *)
(***************************************************************************)
AnkiRequestThrowing(reply) ==
    IF Truthy(reply.error)
    THEN [thrown |-> TRUE, v |-> reply.error]
    ELSE [thrown |-> FALSE, v |-> reply.result]

AnkiRequestIgnoring(reply) == [thrown |-> FALSE, v |-> reply.result]

ankiRequest(variant, reply) ==
    IF variant = "http" THEN AnkiRequestThrowing(reply) ELSE AnkiRequestIgnoring(reply)


\* ankiRequest(action, params = {}): an undefined argument takes the default
DefaultParams(p) == IF p.t = "undefined" THEN NoParams ELSE p

\* obj.field of an upstream JSON object
Prop(o, f) == IF f \in DOMAIN o.v THEN o.v[f] ELSE Undef

\* let query = base; if (deckName) query += ` deck:"${deckName}"`
Query(base, deckName) ==
    IF Truthy(deckName) THEN base \o " deck:\"" \o deckName.v \o "\"" ELSE base

\* request.params.arguments?.deckName || "all decks"
DeckLabel(args) == OrElse(Arg(args, "deckName"), Str("all decks"))

(***************************************************************************)
(* listDecks of the stdio server and of the stdio JSON variant.            *)
(***************************************************************************)
ListDecksSummary(decks) ==
    LET mainDecks == FilterSep(decks, FALSE)
        subDecks == FilterSep(decks, TRUE)
        organized == Organize(subDecks)
    IN IF organized.thrown
       THEN Throw("TypeError: organized[parent].push is not a function")
       ELSE Return([summary |-> "Anki Decks Summary",
                    totalDecks |-> Len(decks),
                    mainDecks |-> mainDecks,
                    organizedDecks |-> organized.obj])

(***************************************************************************)
(* getNewCards / getDueCards of the stdio server.                          *)
(***************************************************************************)
\* cardsInfo.map(card => ({noteId: card.note, deck: card.deckName, ...}))
StdioCardData(card) ==
    JsonStringify([noteId |-> Prop(card, "note"),
                   deck |-> Prop(card, "deckName"),
                   model |-> Prop(card, "modelName"),
                   reviews |-> Prop(card, "reps"),
                   interval |-> Prop(card, "interval"),
                   due |-> Prop(card, "due")])

StdioSample(infos) == [i \in 1..Len(infos) |-> StdioCardData(infos[i])]

StdioNewCards(args, rets) ==
    IF Len(rets) = 0
    THEN Call("findCards", [query |-> Query("is:new", Arg(args, "deckName"))])
    ELSE IF Nullish(rets[1]) THEN Throw("TypeError: reading 'length'")
    ELSE IF Len(rets[1].v) = 0
    THEN Return([newCards |-> 0, deck |-> DeckLabel(args),
                 message |-> "No new cards available for learning"])
    ELSE IF Len(rets) = 1
    THEN Call("cardsInfo", [cards |-> Arr(Slice0(rets[1].v, SampleSize))])
    ELSE IF Nullish(rets[2]) THEN Throw("TypeError: reading 'map'")
    ELSE Return([totalNewCards |-> Len(rets[1].v), deck |-> DeckLabel(args),
                 remainingCards |-> Max(0, Len(rets[1].v) - SampleSize),
                 sampleCards |-> StdioSample(rets[2].v)])

StdioDueCards(args, rets) ==
    IF Len(rets) = 0
    THEN Call("findCards", [query |-> Query("is:due", Arg(args, "deckName"))])
    ELSE IF Nullish(rets[1]) THEN Throw("TypeError: reading 'length'")
    ELSE IF Len(rets[1].v) = 0
    THEN Return([dueCards |-> 0, deck |-> DeckLabel(args),
                 message |-> "No cards currently due for review"])
    ELSE IF Len(rets) = 1
    THEN Call("cardsInfo", [cards |-> Arr(Slice0(rets[1].v, SampleSize))])
    ELSE IF Nullish(rets[2]) THEN Throw("TypeError: reading 'map'")
    ELSE Return([totalDueCards |-> Len(rets[1].v), deck |-> DeckLabel(args),
                 remainingCards |-> Max(0, Len(rets[1].v) - SampleSize),
                 sampleCards |-> StdioSample(rets[2].v)])

(***************************************************************************)
(* getNoteInfo of the stdio server.                                        *)
(***************************************************************************)
StdioNoteInfo(args, rets) ==
    LET noteId == Arg(args, "noteId")
    IN IF Len(rets) = 0
       THEN Call("notesInfo", [notes |-> <<noteId>>])
       ELSE IF ~Truthy(rets[1]) \/ Len(rets[1].v) = 0
       THEN Return(JsonStringify([error |-> Str("Note not found"), noteId |-> noteId]))
       ELSE LET note == rets[1].v[1]
            IN Return(JsonStringify([noteId |-> noteId,
                                     modelName |-> Prop(note, "modelName"),
                                     tags |-> Prop(note, "tags"),
                                     fields |-> Prop(note, "fields"),
                                     cards |-> Prop(note, "cards")]))

(***************************************************************************)
(* answerCard of the stdio server.                                         *)
(***************************************************************************)
\* mutant: a fallback label for a key that is not in easeLabels
EaseLabelWithDefault(ease) ==
    IF ease.t = "number" /\ ease.v = 1 THEN Str("Again (failed)")
    ELSE IF ease.t = "number" /\ ease.v = 2 THEN Str("Hard")
    ELSE IF ease.t = "number" /\ ease.v = 4 THEN Str("Easy")
    ELSE Str("Good")

\* easeLabels[ease]: the four own keys; any other number is undefined
EaseLabel(ease) ==
    IF ease.t = "number" /\ ease.v = 1 THEN Str("Again (failed)")
    ELSE IF ease.t = "number" /\ ease.v = 2 THEN Str("Hard")
    ELSE IF ease.t = "number" /\ ease.v = 3 THEN Str("Good")
    ELSE IF ease.t = "number" /\ ease.v = 4 THEN Str("Easy")
    ELSE Undef

StdioAnswerCard(args, rets) ==
    LET cardId == Arg(args, "cardId")
        ease == Arg(args, "ease")
    IN IF Len(rets) = 0
       THEN Call("answerCards", [answers |-> <<[cardId |-> cardId, ease |-> ease]>>])
       ELSE Return(JsonStringify([success |-> Bool(TRUE),
                                  cardId |-> cardId,
                                  ease |-> ease,
                                  difficulty |-> EaseLabel(ease),
                                  message |-> Str("Card answered successfully")]))

(***************************************************************************)
(* CallToolRequestSchema handler of the stdio server.                      *)
(***************************************************************************)
\* mutant: no default case, an unknown name falls into the listDecks case
StdioCallToolNoDefault(name, args, rets) ==
    CASE name = "getNewCards" -> StdioNewCards(args, rets)
      [] name = "getDueCards" -> StdioDueCards(args, rets)
      [] name = "getNoteInfo" -> StdioNoteInfo(args, rets)
      [] name = "answerCard" -> StdioAnswerCard(args, rets)
      [] OTHER ->
            IF Len(rets) = 0 THEN Call("deckNames", NoParams)
            ELSE IF Nullish(rets[1]) THEN Throw("TypeError: reading 'filter'")
            ELSE ListDecksSummary(rets[1].v)

StdioCallTool(name, args, rets) ==
    CASE name = "listDecks" ->
            IF Len(rets) = 0 THEN Call("deckNames", NoParams)
            ELSE IF Nullish(rets[1]) THEN Throw("TypeError: reading 'filter'")
            ELSE ListDecksSummary(rets[1].v)
      [] name = "getNewCards" -> StdioNewCards(args, rets)
      [] name = "getDueCards" -> StdioDueCards(args, rets)
      [] name = "getNoteInfo" -> StdioNoteInfo(args, rets)
      [] name = "answerCard" -> StdioAnswerCard(args, rets)
      [] OTHER -> Throw("Unknown tool")


(***************************************************************************)
(* Card content (stdio prose and JSON variants).  A field value is a       *)
(* [t |-> "text"] value holding runs [tag, n]: a tag run is "<", n - 2     *)
(* characters other than ">", and ">"; a plain run is n characters other   *)
(* than "<".                                                               *)
(***************************************************************************)
Text(runs) == [t |-> "text", v |-> runs]

RECURSIVE TextLen(_)
TextLen(runs) == IF runs = <<>> THEN 0 ELSE Head(runs).n + TextLen(Tail(runs))

\* primaryField.replace(/<[^>]*>/g, '')
RECURSIVE StripTags(_)
StripTags(runs) ==
    IF runs = <<>> THEN <<>>
    ELSE IF Head(runs).tag THEN StripTags(Tail(runs))
    ELSE <<Head(runs)>> \o StripTags(Tail(runs))

\* .slice(0, n) of a text
RECURSIVE SliceText(_, _)
SliceText(runs, n) ==
    IF runs = <<>> \/ n <= 0 THEN <<>>
    ELSE IF Head(runs).n <= n
    THEN <<Head(runs)>> \o SliceText(Tail(runs), n - Head(runs).n)
    ELSE <<[Head(runs) EXCEPT !.n = n]>>

NoContent == Text(<<[tag |-> FALSE, n |-> 10]>>)

\* fieldNames.length > 0 ? card.fields[fieldNames[0]]?.value || "No content" : "No content"
PrimaryField(card) ==
    LET fields == Prop(card, "fields").v
    IN IF Len(fields) > 0
       THEN OrElse(IF Nullish(fields[1].value) THEN Undef ELSE Prop(fields[1].value, "value"),
                   NoContent)
       ELSE NoContent

\* primaryField.replace(/<[^>]*>/g, '').slice(0, 100)
CleanContent(primaryField) == Text(SliceText(StripTags(primaryField.v), ContentLimit))

(***************************************************************************)
(* CallToolRequestSchema handler of the stdio prose variant.               *)
(***************************************************************************)
ProseCardDetails(infos) ==
    [i \in 1..Len(infos) |->
        LET primaryField == PrimaryField(infos[i])
        IN [index |-> i,
            deck |-> Prop(infos[i], "deckName"),
            model |-> Prop(infos[i], "modelName"),
            content |-> CleanContent(primaryField),
            ellipsis |-> TextLen(primaryField.v) > ContentLimit,
            due |-> Prop(infos[i], "due"),
            reps |-> Prop(infos[i], "reps"),
            interval |-> Prop(infos[i], "interval")]]

ProseDueCards(args, rets) ==
    IF Len(rets) = 0
    THEN Call("findCards", [query |-> Query("is:due", Arg(args, "deckName"))])
    ELSE IF Nullish(rets[1]) THEN Throw("TypeError: reading 'length'")
    ELSE IF Len(rets[1].v) = 0
    THEN Return([noCardsDue |-> TRUE,
                 inDeck |-> IF Truthy(Arg(args, "deckName")) THEN Arg(args, "deckName") ELSE Str("")])
    ELSE IF Len(rets) = 1
    THEN Call("cardsInfo", [cards |-> Arr(Slice0(rets[1].v, SampleSize))])
    ELSE IF Nullish(rets[2]) THEN Throw("TypeError: reading 'map'")
    ELSE IF \E i \in 1..Len(rets[2].v) : Nullish(Prop(rets[2].v[i], "fields"))
    THEN Throw("TypeError: Object.keys of undefined")
    ELSE Return([found |-> Len(rets[1].v),
                 deckFilter |-> IF Truthy(Arg(args, "deckName")) THEN Arg(args, "deckName")
                                ELSE Str("all decks"),
                 cardDetails |-> ProseCardDetails(rets[2].v),
                 more |-> IF Len(rets[1].v) > SampleSize THEN Len(rets[1].v) - SampleSize ELSE 0])

ProseCallTool(name, args, rets) ==
    CASE name = "listDecks" ->
            IF Len(rets) = 0 THEN Call("deckNames", NoParams)
            ELSE IF Nullish(rets[1]) THEN Throw("TypeError: reading 'length'")
            ELSE Return([found |-> Len(rets[1].v), decks |-> rets[1].v])
      [] name = "getDueCards" -> ProseDueCards(args, rets)
      [] name = "addNote" ->
            IF Len(rets) = 0 THEN Call("addNote", [note |-> args])
            ELSE Return([created |-> rets[1]])
      [] OTHER -> Throw("Unknown tool")

(***************************************************************************)
(* CallToolRequestSchema handler of the stdio JSON variant.                *)
(***************************************************************************)
JsonCardData(card) ==
    JsonStringify([id |-> Prop(card, "cardId"),
                   content |-> CleanContent(PrimaryField(card)),
                   deck |-> Prop(card, "deckName"),
                   model |-> Prop(card, "modelName"),
                   reviews |-> Prop(card, "reps"),
                   interval |-> Prop(card, "interval"),
                   due |-> Prop(card, "due")])

JsonDueCards(args, rets) ==
    IF Len(rets) = 0
    THEN Call("findCards", [query |-> Query("is:due", Arg(args, "deckName"))])
    ELSE IF Nullish(rets[1]) THEN Throw("TypeError: reading 'length'")
    ELSE IF Len(rets[1].v) = 0
    THEN Return([dueCards |-> 0, deck |-> DeckLabel(args),
                 message |-> "No cards currently due for review"])
    ELSE IF Len(rets) = 1
    THEN Call("cardsInfo", [cards |-> Arr(Slice0(rets[1].v, SampleSize))])
    ELSE IF Nullish(rets[2]) THEN Throw("TypeError: reading 'map'")
    ELSE IF \E i \in 1..Len(rets[2].v) : Nullish(Prop(rets[2].v[i], "fields"))
    THEN Throw("TypeError: Object.keys of undefined")
    ELSE Return([totalDueCards |-> Len(rets[1].v), deck |-> DeckLabel(args),
                 remainingCards |-> Max(0, Len(rets[1].v) - SampleSize),
                 sampleCards |-> [i \in 1..Len(rets[2].v) |-> JsonCardData(rets[2].v[i])]])

JsonCallTool(name, args, rets) ==
    CASE name = "listDecks" ->
            IF Len(rets) = 0 THEN Call("deckNames", NoParams)
            ELSE IF Nullish(rets[1]) THEN Throw("TypeError: reading 'filter'")
            ELSE ListDecksSummary(rets[1].v)
      [] name = "getDueCards" -> JsonDueCards(args, rets)
      [] name = "addNote" ->
            IF Len(rets) = 0 THEN Call("addNote", [note |-> args])
            ELSE Return(JsonStringify([success |-> Bool(TRUE),
                                       noteId |-> rets[1],
                                       deck |-> Arg(args, "deckName"),
                                       model |-> Arg(args, "modelName"),
                                       message |-> Str("Note added to Anki collection")]))
      [] OTHER -> Throw("Unknown tool")

(***************************************************************************)
(* tools/call of the simple HTTP server.                                   *)
(***************************************************************************)
HttpCallTool(name, args, rets) ==
    CASE name = "getDueCards" ->
            IF Len(rets) = 0
            THEN Call("findCards", [query |-> Query("is:due", Arg(args, "deckName"))])
            ELSE IF Nullish(rets[1]) THEN Throw("TypeError: reading 'slice'")
            ELSE IF Len(rets) = 1
            THEN Call("cardsInfo", [cards |-> Arr(Slice0(rets[1].v, HttpSampleSize))])
            ELSE Return([found |-> Len(rets[1].v), cardsInfo |-> rets[2]])
      [] name = "listDecks" ->
            IF Len(rets) = 0 THEN Call("deckNames", NoParams)
            ELSE IF Nullish(rets[1]) THEN Throw("TypeError: reading 'join'")
            ELSE Return([decks |-> rets[1].v])
      [] name = "addNote" ->
            IF Len(rets) = 0 THEN Call("addNote", [note |-> args])
            ELSE Return([created |-> rets[1]])
      [] OTHER -> Throw("Unknown tool: " \o name)

(***************************************************************************)
(* CallToolRequestSchema handler of the SSE server (the module-level       *)
(* server and each per-connection server register the same switch).        *)
(***************************************************************************)
SseCallTool(name, args, rets) ==
    CASE name = "listDecks" ->
            IF Len(rets) = 0 THEN Call("deckNames", NoParams)
            ELSE IF Nullish(rets[1]) THEN Throw("TypeError: reading 'join'")
            ELSE Return([toolResult |-> "decks", decks |-> rets[1].v])
      [] name = "listModels" ->
            IF Len(rets) = 0 THEN Call("modelNames", NoParams)
            ELSE Return([toolResult |-> "models", models |-> rets[1]])
      [] name = "getModel" ->
            IF ~Truthy(args) THEN Throw("getModel requires a model name")
            ELSE IF Len(rets) = 0
            THEN Call("findModelsByName", [modelNames |-> <<Arg(args, "modelName")>>])
            ELSE Return([toolResult |-> "model", modelName |-> Arg(args, "modelName"),
                         model |-> rets[1]])
      [] name = "addNotes" ->
            IF Len(rets) = 0 THEN Call("addNotes", DefaultParams(args))
            ELSE IF Nullish(rets[1]) THEN Throw("TypeError: reading 'join'")
            ELSE Return([toolResult |-> "created notes", ids |-> rets[1].v])
      [] name = "addNote" ->
            IF Len(rets) = 0 THEN Call("addNote", [note |-> args])
            ELSE Return([toolResult |-> "created note", id |-> rets[1]])
      [] name = "getDueCards" ->
            IF Len(rets) = 0
            THEN Call("findCards", [query |-> Query("is:due", Arg(args, "deckName"))])
            ELSE IF Len(rets) = 1
            THEN Call("cardsInfo", [cards |-> rets[1]])
            ELSE IF Nullish(rets[1]) THEN Throw("TypeError: reading 'length'")
            ELSE Return([toolResult |-> "due cards", found |-> Len(rets[1].v),
                         cardsInfo |-> rets[2]])
      [] OTHER -> Throw("Unknown tool")

(***************************************************************************)
(* Direct HTTP API of the SSE server.  args is the query or body object.   *)
(***************************************************************************)
SseEndpoint(name, args, rets) ==
    CASE name = "GET /decks" ->
            IF Len(rets) = 0 THEN Call("deckNames", NoParams)
            ELSE Return([decks |-> rets[1]])
      [] name = "GET /due-cards" ->
            IF Len(rets) = 0
            THEN Call("findCards", [query |-> Query("is:due", Arg(args, "deck"))])
            ELSE IF Len(rets) = 1
            THEN Call("cardsInfo", [cards |-> rets[1]])
            ELSE IF Nullish(rets[1]) THEN Throw("TypeError: reading 'length'")
            ELSE IF Nullish(rets[2]) THEN Throw("TypeError: reading 'map'")
            ELSE Return([count |-> Len(rets[1].v),
                         cards |-> [i \in 1..Len(rets[2].v) |->
                             JsonStringify([id |-> Prop(rets[2].v[i], "cardId"),
                                            question |-> Prop(rets[2].v[i], "question"),
                                            answer |-> Prop(rets[2].v[i], "answer"),
                                            deckName |-> Prop(rets[2].v[i], "deckName"),
                                            due |-> Prop(rets[2].v[i], "due")])]])
      [] name = "POST /add-note" ->
            IF Len(rets) = 0
            THEN Call("addNote", [note |-> [deckName |-> Arg(args, "deckName"),
                                            modelName |-> Arg(args, "modelName"),
                                            fields |-> Arg(args, "fields"),
                                            tags |-> Arg(args, "tags")]])
            ELSE Return([noteId |-> rets[1]])


(***************************************************************************)
(* The advertised tool catalogs (list-tools).                              *)
(***************************************************************************)
(***************************************************************************)
(* Resources.  A URI is a sequence of chunks: the scheme, the collection   *)
(* with its slash, and the rest.                                           *)
(***************************************************************************)
UriPrefix(collection) == <<"anki://", collection \o "/">>

\* uri.startsWith(prefix)
StartsWith(uri, prefix) ==
    Len(uri) >= Len(prefix) /\ SubSeq(uri, 1, Len(prefix)) = prefix

\* uri.replace(prefix, "") for a uri that starts with the prefix
AfterPrefix(uri, prefix) == SubSeq(uri, Len(prefix) + 1, Len(uri))

NaN == [t |-> "NaN"]

\* parseInt of the text after the prefix: a number, or NaN
ParseInt(rest) ==
    IF Len(rest) = 1 /\ \E n \in 0..9 : ToString(n) = rest[1]
    THEN Num(CHOOSE n \in 0..9 : ToString(n) = rest[1])
    ELSE NaN

\* JSON.stringify writes NaN as null
JsonNumber(x) == IF x = NaN THEN Null ELSE x

\* mutant: the URI is built without the slash before the id
ResourceUriNoSlash(collection, id) == <<"anki://", collection, ToString(id.v)>>

\* `anki://decks/${id}`, `anki://models/${id}`
ResourceUri(collection, id) == UriPrefix(collection) \o <<ToString(id.v)>>

\* Object.entries(map).map(([name, id]) => ({ uri, name }))
ResourcesOf(collection, entries) ==
    [k \in 1..Len(entries) |->
        [uri |-> ResourceUri(collection, entries[k].id), name |-> entries[k].name]]

\* ListResourcesRequestSchema handler of the SSE server (module-level and
\* per-connection server)
SseListResources(rets) ==
    IF Len(rets) = 0 THEN Call("deckNamesAndIds", NoParams)
    ELSE IF Len(rets) = 1 THEN Call("modelNamesAndIds", NoParams)
    ELSE IF Nullish(rets[1]) \/ Nullish(rets[2])
    THEN Throw("TypeError: Cannot convert undefined or null to object")
    ELSE Return([resources |-> ResourcesOf("decks", rets[1].v)
                               \o ResourcesOf("models", rets[2].v)])

\* ReadResourceRequestSchema handler of the SSE server
SseReadResource(uri, rets) ==
    IF StartsWith(uri, UriPrefix("decks"))
    THEN Return([contents |->
            <<[uri |-> uri, mimeType |-> "application/json",
               text |-> [deckId |-> JsonNumber(ParseInt(AfterPrefix(uri, UriPrefix("decks"))))]]>>])
    ELSE IF StartsWith(uri, UriPrefix("models"))
    THEN IF Len(rets) = 0
         THEN Call("findModelsById",
                   [modelIds |-> <<ParseInt(AfterPrefix(uri, UriPrefix("models")))>>])
         ELSE Return([contents |->
                 <<[uri |-> uri, mimeType |-> "application/json", text |-> rets[1]]>>])
    ELSE Throw("resource not found")

\* the resource handlers of each variant; the stdio servers have minimal ones
ListResources(variant, rets) ==
    IF variant = "sse" THEN SseListResources(rets)
    ELSE Return([resources |-> <<>>])

ReadResource(variant, uri, rets) ==
    IF variant = "sse" THEN SseReadResource(uri, rets)
    ELSE Throw("No resources available")

\* mutant: the prose variant lists the tools of the SSE server
CatalogProseAsSse(variant) ==
    CASE variant = "stdio" ->
            {"listDecks", "getNewCards", "getDueCards", "getNoteInfo", "answerCard"}
      [] variant = "http" -> {"getDueCards", "listDecks", "addNote"}
      [] variant \in {"sse", "prose"} ->
            {"listDecks", "listModels", "getModel", "addNote", "addNotes", "getDueCards"}
      [] variant = "json" -> {"listDecks", "getDueCards", "addNote"}

Catalog(variant) ==
    CASE variant = "stdio" ->
            {"listDecks", "getNewCards", "getDueCards", "getNoteInfo", "answerCard"}
      [] variant = "http" -> {"getDueCards", "listDecks", "addNote"}
      [] variant = "sse" ->
            {"listDecks", "listModels", "getModel", "addNote", "addNotes", "getDueCards"}
      [] variant = "prose" -> {"listDecks", "getDueCards", "addNote"}
      [] variant = "json" -> {"listDecks", "getDueCards", "addNote"}

\* the ListToolsRequestSchema handler: the literal list, whatever came before
ListTools(variant) == Return([tools |-> Catalog(variant)])

(***************************************************************************)
(* POST /sse of the simple HTTP server: the JSON-RPC switch on method.     *)
(* hasParams tells whether the body carries a params object.               *)
(***************************************************************************)
HttpPostHandler(method, hasParams, name, args, rets) ==
    CASE method = "initialize" ->
            Return([protocolVersion |-> "2024-11-05", serverInfo |-> "anki-mcp"])
      [] method = "tools/list" -> Return([tools |-> Catalog("http")])
      [] method = "tools/call" ->
            IF ~hasParams THEN Throw("TypeError: cannot destructure params")
            ELSE HttpCallTool(name, args, rets)
      [] method = "resources/list" -> Return([resources |-> <<>>])
      [] OTHER -> [k |-> "notfound", msg |-> "Method not found: " \o method]

(***************************************************************************)
(* Inputs: the variants, the tool names a client may send, their           *)
(* arguments, and the answers of the upstream API.                         *)
(***************************************************************************)
Variants == {"stdio", "http", "sse", "prose", "json"}

ToolNames == {"listDecks", "getNewCards", "getDueCards", "getNoteInfo", "answerCard",
              "addNote", "addNotes", "listModels", "getModel", "deleteDeck"}

EndpointNames == {"GET /decks", "GET /due-cards", "POST /add-note"}

HttpMethods == {"initialize", "tools/list", "tools/call", "resources/list", "prompts/list"}

EaseValues == 0..5

NoteArgs == Obj([deckName |-> Str("Spanish"), modelName |-> Str("Basic"),
                 fields |-> Str("Front/Back")])

ArgsFor(name) ==
    CASE name \in {"getNewCards", "getDueCards"} ->
            {Undef, Obj([deckName |-> Str("Spanish")]), Obj([deckName |-> Str("")])}
      [] name = "GET /due-cards" ->
            {Obj([none |-> Undef]), Obj([deck |-> Str("Spanish")]), Obj([deck |-> Str("")])}
      [] name = "getNoteInfo" -> {Undef, Obj([noteId |-> Num(42)])}
      [] name = "answerCard" ->
            {Undef, Obj([cardId |-> Num(7)])}
            \cup {Obj([cardId |-> Num(7), ease |-> Num(e)]) : e \in EaseValues}
      [] name \in {"addNote", "POST /add-note"} -> {NoteArgs}
      [] name = "addNotes" -> {Undef, Obj([notes |-> <<NoteArgs>>])}
      [] name = "getModel" -> {Undef, Obj([modelName |-> Str("Basic")])}
      [] OTHER -> {Undef}

DeckNamePool == {<<"Default">>,
                 <<"Spanish", ":", ":", "Verbs">>,
                 <<"Spanish", ":", ":", "Nouns", ":", ":", "Plural">>,
                 <<"a", ":", "b">>,
                 <<":", ":", "Orphan">>,
                 <<"constructor", ":", ":", "x">>}

DeckLists == UNION {[1..n -> DeckNamePool] : n \in 0..MaxDecks}

\* n distinct card ids, not in increasing order
IdList(n) == [i \in 1..n |-> IF i % 2 = 1 THEN 100 + i ELSE 100 - i]

\* the text of a card's first field: runs of markup (tag) and of other
\* characters, n characters each; short, long only by its markup, long after
\* its markup is removed, and exactly 100 characters
FieldText(id) ==
    CASE id = 98 -> Text(<<[tag |-> TRUE, n |-> 30], [tag |-> FALSE, n |-> 90]>>)
      [] id = 103 -> Text(<<[tag |-> FALSE, n |-> 60], [tag |-> TRUE, n |-> 7],
                            [tag |-> FALSE, n |-> 70]>>)
      [] id = 96 -> Text(<<[tag |-> FALSE, n |-> 100]>>)
      [] OTHER -> Text(<<[tag |-> TRUE, n |-> 5], [tag |-> FALSE, n |-> 20]>>)

FieldsOf(id) ==
    <<[name |-> "Front", value |-> Obj([value |-> FieldText(id), order |-> Num(0)])]>>

CardInfo(id) ==
    Obj([cardId |-> Num(id), note |-> Num(id + 1000), deckName |-> Str("Spanish"),
         modelName |-> Str("Basic"), reps |-> Num(3), interval |-> Num(4),
         due |-> Num(5), question |-> Str("q"), answer |-> Str("a"),
         fields |-> [t |-> "fields", v |-> FieldsOf(id)]])

NoteRecord == Obj([noteId |-> Num(42), modelName |-> Str("Basic"), tags |-> Arr(<<>>),
                   fields |-> Str("Front/Back"), cards |-> Arr(<<Num(7)>>)])

EmptyRecord == Obj([k \in {} |-> Undef])

Ok(v) == [result |-> v, error |-> Null]

\* the URIs a client may ask for
UriPool == {<<"anki://", "decks/", "1">>, <<"anki://", "decks/", "x">>,
            <<"anki://", "models/", "5">>, <<"anki://", "notes/", "1">>,
            <<"file://", "decks/", "1">>, <<"anki://", "decks">>}

\* a name-to-id map, in the order of Object.entries
Entries(pairs) == [t |-> "entries", v |-> pairs]

DeckIdMaps == {Entries(<<>>),
               Entries(<<[name |-> "Default", id |-> Num(1)]>>),
               Entries(<<[name |-> "Default", id |-> Num(1)],
                         [name |-> "Spanish", id |-> Num(2)]>>)}

ModelIdMaps == {Entries(<<>>), Entries(<<[name |-> "Basic", id |-> Num(5)]>>)}
ErrorReply == [result |-> Null, error |-> Str("collection is not available")]

\* what the upstream API may answer to a request
Answers(call) ==
    {ErrorReply} \cup
    CASE call.action = "deckNames" -> {Ok(Arr(l)) : l \in DeckLists}
      [] call.action = "findCards" -> {Ok(Arr(IdList(n))) : n \in 0..MaxCards}
      [] call.action = "cardsInfo" ->
            IF call.params.cards.t = "array"
            THEN {Ok(Arr([i \in 1..Len(call.params.cards.v) |->
                             CardInfo(call.params.cards.v[i])]))}
            ELSE {}
      [] call.action = "notesInfo" ->
            {Ok(Arr(<<>>)), Ok(Arr(<<NoteRecord>>)), Ok(Arr(<<EmptyRecord>>))}
      [] call.action = "answerCards" -> {Ok(Arr(<<Bool(TRUE)>>)), Ok(Arr(<<Bool(FALSE)>>))}
      [] call.action = "addNote" -> {Ok(Num(1001))}
      [] call.action = "addNotes" -> {Ok(Arr(<<Num(1001)>>))}
      [] call.action = "modelNames" -> {Ok(Arr(<<Str("Basic")>>))}
      [] call.action = "findModelsByName" -> {Ok(Arr(<<Obj([name |-> Str("Basic")])>>))}
      [] call.action = "deckNamesAndIds" -> {Ok(m) : m \in DeckIdMaps}
      [] call.action = "modelNamesAndIds" -> {Ok(m) : m \in ModelIdMaps}
      [] call.action = "findModelsById" -> {Ok(Arr(<<Obj([name |-> Str("Basic")])>>))}

(***************************************************************************)
(* One invocation: the handler runs to its next await (a call is issued)   *)
(* or to its end (the caller gets a response).                             *)
(*   kind "tool"     a tool call (tools/call of the HTTP server)           *)
(*   kind "rpc"      another JSON-RPC method of the simple HTTP server     *)
(*   kind "endpoint" a request to the direct HTTP API of the SSE server    *)
(*   kind "post"     a POST /sse message of the SSE server                 *)
(***************************************************************************)
Handler(i) ==
    CASE i.kind = "endpoint" -> SseEndpoint(i.name, i.args, i.rets)
      [] i.kind = "list" -> ListTools(i.variant)
      [] i.kind = "listResources" -> ListResources(i.variant, i.rets)
      [] i.kind = "readResource" -> ReadResource(i.variant, i.args.v.uri, i.rets)
      [] i.variant = "http" ->
            HttpPostHandler(i.method, i.hasParams, i.name, i.args, i.rets)
      [] i.variant = "stdio" -> StdioCallTool(i.name, i.args, i.rets)
      [] i.variant = "sse" -> SseCallTool(i.name, i.args, i.rets)
      [] i.variant = "prose" -> ProseCallTool(i.name, i.args, i.rets)
      [] i.variant = "json" -> JsonCallTool(i.name, i.args, i.rets)

\* what the caller receives for a handler that returned or threw
Respond(variant, kind, out) ==
    IF kind = "endpoint"
    THEN IF out.k = "return"
         THEN [kind |-> "result", status |-> 200, body |-> out.body]
         ELSE [kind |-> "error", status |-> 500, message |-> "Failed"]
    ELSE IF variant = "http"
    THEN IF out.k = "return"
         THEN [kind |-> "result", status |-> 200, body |-> out.body]
         ELSE IF out.k = "notfound"
         THEN [kind |-> "error", status |-> 400, code |-> -32601, message |-> out.msg]
         ELSE [kind |-> "error", status |-> 500, code |-> -32603, message |-> out.msg]
    ELSE IF out.k = "return"
         THEN [kind |-> "result", body |-> out.body]
         ELSE [kind |-> "error", message |-> out.msg]

\* mutant: the failure response takes no id from the request body
JsonRpcResponseErrorsAnonymous(variant, kind, id, r) ==
    IF variant = "http" /\ kind # "endpoint" /\ id # Undef /\ r.kind = "result"
    THEN [id |-> id] @@ r
    ELSE r

\* res.json({ jsonrpc, result | error, id }) of POST /sse of the simple HTTP
\* server: the serialised body has no id member when the request had none
JsonRpcResponse(variant, kind, id, r) ==
    IF variant = "http" /\ kind # "endpoint" /\ id # Undef
    THEN [id |-> id] @@ r
    ELSE r

NoResp == [kind |-> "none"]

Idle == [pc |-> "idle", variant |-> "stdio", kind |-> "tool", method |-> "tools/call",
         hasParams |-> TRUE, name |-> "listDecks", args |-> Undef, sid |-> 0,
         stale |-> FALSE, calls |-> <<>>, replies |-> <<>>, rets |-> <<>>,
         id |-> Undef, resp |-> NoResp]

\* run the handler of invocation i from its last await
Run(i) ==
    LET out == Handler(i)
    IN IF out.k = "call"
       THEN [i EXCEPT !.pc = "await",
                      !.calls = Append(@, [action |-> out.action, params |-> out.params])]
       ELSE [i EXCEPT !.pc = "done",
                      !.resp = JsonRpcResponse(i.variant, i.kind, i.id,
                                               Respond(i.variant, i.kind, out))]

\* mutant: a failed upstream request is sent again
SettleRetrying(i, reply) ==
    LET r == ankiRequest(i.variant, reply)
        j == [i EXCEPT !.replies = Append(@, reply)]
    IN IF Truthy(reply.error)
       THEN [j EXCEPT !.calls = Append(@, i.calls[Len(i.calls)])]
       ELSE Run([j EXCEPT !.rets = Append(@, r.v)])

\* the awaited ankiRequest settles with the upstream's reply
Settle(i, reply) ==
    LET r == ankiRequest(i.variant, reply)
        j == [i EXCEPT !.replies = Append(@, reply)]
    IN IF r.thrown
       THEN [j EXCEPT !.pc = "done",
                      !.resp = JsonRpcResponse(i.variant, i.kind, i.id,
                                      Respond(i.variant, i.kind, Throw(r.v.v)))]
       ELSE Run([j EXCEPT !.rets = Append(@, r.v)])

\* a tools/call request with its name, its arguments and its JSON-RPC id
Request(variant, name, args, id) ==
    Run([Idle EXCEPT !.pc = "run", !.variant = variant, !.name = name, !.args = args,
                     !.id = id])

\* a tools/call request with its name and arguments
ToolCall(variant, name, args) == Request(variant, name, args, Undef)

\* another JSON-RPC request to POST /sse of the simple HTTP server
RpcCallWithId(method, hasParams, id) ==
    Run([Idle EXCEPT !.pc = "run", !.variant = "http", !.kind = "rpc",
                     !.method = method, !.hasParams = hasParams, !.id = id])

RpcCall(method, hasParams) == RpcCallWithId(method, hasParams, Undef)

\* the id member of a request body: absent, or a number
RequestIds(variant) == IF variant = "http" THEN {Undef, Num(7)} ELSE {Undef}

InvokeTool ==
    /\ inv.pc = "idle"
    /\ \E variant \in Variants, name \in ToolNames :
         \E args \in ArgsFor(name), id \in RequestIds(variant) :
            inv' = Request(variant, name, args, id)
    /\ UNCHANGED <<server, conns, table, pool>>

InvokeRpc ==
    /\ inv.pc = "idle"
    /\ \E method \in HttpMethods, hasParams \in BOOLEAN, id \in RequestIds("http") :
         /\ method = "tools/call" => ~hasParams
         /\ inv' = RpcCallWithId(method, hasParams, id)
    /\ UNCHANGED <<server, conns, table, pool>>

InvokeEndpoint ==
    /\ inv.pc = "idle"
    /\ \E name \in EndpointNames :
         \E args \in ArgsFor(name) :
            inv' = Run([Idle EXCEPT !.pc = "run", !.variant = "sse", !.kind = "endpoint",
                                    !.name = name, !.args = args])
    /\ UNCHANGED <<server, conns, table, pool>>

\* a tools/list request to a server built on the SDK
InvokeListTools ==
    /\ inv.pc = "idle"
    /\ \E variant \in Variants \ {"http"} :
         inv' = Run([Idle EXCEPT !.pc = "run", !.variant = variant, !.kind = "list"])
    /\ UNCHANGED <<server, conns, table, pool>>

\* a resources/list request to a server built on the SDK
InvokeListResources ==
    /\ inv.pc = "idle"
    /\ \E variant \in Variants \ {"http"} :
         inv' = Run([Idle EXCEPT !.pc = "run", !.variant = variant,
                                 !.kind = "listResources"])
    /\ UNCHANGED <<server, conns, table, pool>>

\* a resources/read request for a URI
InvokeReadResource ==
    /\ inv.pc = "idle"
    /\ \E variant \in Variants \ {"http"}, uri \in UriPool :
         inv' = Run([Idle EXCEPT !.pc = "run", !.variant = variant,
                                 !.kind = "readResource", !.args = Obj([uri |-> uri])])
    /\ UNCHANGED <<server, conns, table, pool>>

UpstreamReply ==
    /\ inv.pc = "await"
    /\ \E reply \in Answers(inv.calls[Len(inv.calls)]) : inv' = Settle(inv, reply)
    /\ UNCHANGED <<server, conns, table, pool>>

\* the response has been delivered; the server takes the next request
NextRequest ==
    /\ inv.pc = "done"
    /\ inv' = Idle
    /\ UNCHANGED <<server, conns, table, pool>>

NoConns == [c \in {} |-> 0]

\* no concurrent invocations are modelled
NoPool == <<>>

InitTools ==
    /\ inv = Idle
    /\ server = "none"
    /\ conns = <<>>
    /\ table = NoConns
    /\ pool = NoPool

NextTools ==
    \/ InvokeTool
    \/ InvokeRpc
    \/ InvokeEndpoint
    \/ InvokeListTools
    \/ InvokeListResources
    \/ InvokeReadResource
    \/ UpstreamReply
    \/ NextRequest

SpecTools == InitTools /\ [][NextTools]_vars


(***************************************************************************)
(* Session tables of the two streaming servers.                            *)
(*   conns  the connections opened so far, in order; connection c is       *)
(*          [sid, state, timer, failed, beat]: its session id, "live" /    *)
(*          "closed" / "errored" (request error) / "broken" (failed        *)
(*          set-up), whether its keepalive timer runs, whether a write has *)
(*          failed, and a bit that every keepalive written to it flips     *)
(*   table  connections (simple HTTP server) or transports (SSE server):   *)
(*          session id -> the connection whose channel is registered       *)
(***************************************************************************)
\* the tokens Math.random().toString(36).substring(7) may yield
SessionIds == {1, 2}

\* Map.delete(sessionId)
MapDelete(map, key) == [k \in DOMAIN map \ {key} |-> map[k]]

\* mutant: every session id leads to the value registered last
MapSetShared(map, key, value) == [k \in DOMAIN map \cup {key} |-> value]

\* Map.set(sessionId, value)
MapSet(map, key, value) == (key :> value) @@ map

NewConn(sid, state, timer) ==
    [sid |-> sid, state |-> state, timer |-> timer, failed |-> FALSE, beat |-> FALSE]

\* the POST names a session that has closed, and no connection that has not
StaleSid(sid) ==
    /\ \E c \in 1..Len(conns) : conns[c].sid = sid /\ conns[c].state = "closed"
    /\ \A c \in 1..Len(conns) : conns[c].sid = sid => conns[c].state = "closed"

\* GET /sse of the simple HTTP server: the token comes from Math.random()
HttpOpen ==
    /\ server = "http"
    /\ Len(conns) < MaxConn
    /\ \E sid \in SessionIds :
         /\ table' = MapSet(table, sid, Len(conns) + 1)
         /\ conns' = Append(conns, NewConn(sid, "live", TRUE))
    /\ UNCHANGED <<inv, server, pool>>

\* one tick of the keepAlive interval of connection c
HttpTick(c) ==
    /\ server = "http"
    /\ conns[c].timer
    /\ IF conns[c].sid \in DOMAIN table
       THEN \/ /\ conns' = [conns EXCEPT ![c].beat = ~@]
               /\ UNCHANGED table
            \/ /\ table' = MapDelete(table, conns[c].sid)
               /\ conns' = [conns EXCEPT ![c].timer = FALSE, ![c].failed = TRUE]
       ELSE /\ conns' = [conns EXCEPT ![c].timer = FALSE]
            /\ UNCHANGED table
    /\ UNCHANGED <<inv, server, pool>>

\* req.on('close')
HttpClose(c) ==
    /\ server = "http"
    /\ conns[c].state \in {"live", "errored"}
    /\ table' = MapDelete(table, conns[c].sid)
    /\ conns' = [conns EXCEPT ![c].timer = FALSE, ![c].state = "closed"]
    /\ UNCHANGED <<inv, server, pool>>

\* req.on('error')
HttpError(c) ==
    /\ server = "http"
    /\ conns[c].state = "live"
    /\ table' = MapDelete(table, conns[c].sid)
    /\ conns' = [conns EXCEPT ![c].timer = FALSE, ![c].state = "errored"]
    /\ UNCHANGED <<inv, server, pool>>

\* POST /sse?sessionId=sid of the simple HTTP server: the session id is not
\* read.  The requests here are those the handler answers without awaiting the
\* upstream (every method but tools/call, a tools/call without params or for a
\* name outside the switch); the awaiting tool calls are those of SpecTools.
HttpPost(sid) ==
    /\ server = "http"
    /\ inv.pc = "idle"
    /\ \/ \E name \in ToolNames \ Catalog("http") :
            inv' = [ToolCall("http", name, Undef) EXCEPT !.sid = sid,
                                                         !.stale = StaleSid(sid)]
       \/ \E method \in HttpMethods, hasParams \in BOOLEAN :
            /\ method = "tools/call" => ~hasParams
            /\ inv' = [RpcCall(method, hasParams) EXCEPT !.sid = sid,
                                                         !.stale = StaleSid(sid)]
    /\ UNCHANGED <<server, conns, table, pool>>

\* GET /sse of the SSE server: the transport's session id is a fresh UUID;
\* connect() / start() may throw, and the catch block leaves the table alone
SseOpen ==
    /\ server = "sse"
    /\ Len(conns) < MaxConn
    /\ table' = MapSet(table, Len(conns) + 1, Len(conns) + 1)
    /\ \E state \in {"live", "broken"} :
         conns' = Append(conns, NewConn(Len(conns) + 1, state, FALSE))
    /\ UNCHANGED <<inv, server, pool>>

\* transport.onclose
SseClose(c) ==
    /\ server = "sse"
    /\ conns[c].state \in {"live", "broken"}
    /\ table' = MapDelete(table, conns[c].sid)
    /\ conns' = [conns EXCEPT ![c].state = "closed"]
    /\ UNCHANGED <<inv, server, pool>>

\* transport.onerror: the error is logged
SseTransportError(c) ==
    /\ server = "sse"
    /\ conns[c].state = "live"
    /\ conns' = [conns EXCEPT ![c].failed = TRUE]
    /\ UNCHANGED <<inv, server, table, pool>>

\* POST /sse?sessionId=sid of the SSE server: the message is handed to
\* transports.get(sessionId), whose handlePostMessage may throw
SsePost(sid) ==
    /\ server = "sse"
    /\ inv.pc = "idle"
    /\ LET post == [Idle EXCEPT !.pc = "done", !.variant = "sse", !.kind = "post",
                                !.sid = sid, !.stale = StaleSid(sid)]
       IN IF sid \notin DOMAIN table
          THEN inv' = [post EXCEPT !.resp = [kind |-> "error", status |-> 404,
                                             message |-> "Session not found"]]
          ELSE \/ inv' = [post EXCEPT !.resp = [kind |-> "routed", to |-> table[sid]]]
               \/ inv' = [post EXCEPT !.resp = [kind |-> "error", status |-> 500,
                                                message |-> "Failed to handle message",
                                                to |-> table[sid]]]
    /\ UNCHANGED <<server, conns, table, pool>>

InitSess ==
    /\ inv = Idle
    /\ server \in {"http", "sse"}
    /\ conns = <<>>
    /\ table = NoConns
    /\ pool = NoPool

NextSess ==
    \/ HttpOpen
    \/ \E c \in 1..Len(conns) : HttpTick(c)
    \/ \E c \in 1..Len(conns) : HttpClose(c)
    \/ \E c \in 1..Len(conns) : HttpError(c)
    \/ \E sid \in 0..MaxConn : HttpPost(sid)
    \/ SseOpen
    \/ \E c \in 1..Len(conns) : SseClose(c)
    \/ \E c \in 1..Len(conns) : SseTransportError(c)
    \/ \E sid \in 0..MaxConn : SsePost(sid)
    \/ NextRequest

SpecSess == InitSess /\ [][NextSess]_vars

(***************************************************************************)
(* Concurrent invocations.  A handler is an async function: it runs        *)
(* without interruption from one await to the next, and while it awaits    *)
(* the upstream the event loop runs the other handlers.                    *)
(*   pool  slot -> [i, arrived]: the invocation running in the slot and    *)
(*         the upstream reply that has arrived for its pending call and    *)
(*         that its continuation has not consumed yet (<<>> if none)       *)
(***************************************************************************)
\* two requests in progress at a time
Slots == {1, 2}

\* the answers of the upstream used when invocations run concurrently: the
\* failure, and the successes with no, one or the most elements
ConcAnswers(call) ==
    {r \in Answers(call) :
        \/ Truthy(r.error)
        \/ r.result.t # "array"
        \/ Len(r.result.v) \in {0, 1, MaxCards}}

FreeSlot == [i |-> Idle, arrived |-> <<>>]

\* the requests a client of the server may send
Requests(variant) ==
    {ToolCall(variant, name, args) : <<name, args>> \in
        UNION {{<<n, a>> : a \in ArgsFor(n)} : n \in ToolNames}}

\* mutant: the continuation reads the results from one module-level variable
\* that every invocation writes
ResumeInShared(p, s) ==
    LET i == p[s].i
        last == IF \E t \in Slots \ {s} : p[t].i.rets # <<>>
                THEN LET t == CHOOSE t \in Slots \ {s} : p[t].i.rets # <<>>
                     IN [result |-> p[t].i.rets[Len(p[t].i.rets)], error |-> Null]
                ELSE p[s].arrived[1]
        j == Settle(i, last)
    IN [p EXCEPT ![s] = [i |-> [j EXCEPT !.replies = Append(i.replies, p[s].arrived[1])],
                         arrived |-> <<>>]]

\* the continuation of the invocation in slot s runs with the reply that
\* arrived for it: its locals are those of its own call of the handler
ResumeIn(p, s) ==
    [p EXCEPT ![s] = [i |-> Settle(p[s].i, p[s].arrived[1]), arrived |-> <<>>]]

\* mutant: a continuation runs only when no other invocation is awaiting
RunnableSerial(p, s) ==
    /\ p[s].i.pc = "await"
    /\ p[s].arrived # <<>>
    /\ \A t \in Slots \ {s} : ~(p[t].i.pc = "await" /\ p[t].arrived = <<>>)

\* the event loop can run the continuation of slot s: its fetch has settled
Runnable(p, s) ==
    /\ p[s].i.pc = "await"
    /\ p[s].arrived # <<>>

\* a request arrives and its handler runs to its first await or to its end
ConcInvoke(s) ==
    /\ pool[s].i.pc = "idle"
    /\ \E i \in Requests(server) : pool' = [pool EXCEPT ![s] = [i |-> i, arrived |-> <<>>]]
    /\ UNCHANGED <<inv, server, conns, table>>

\* the upstream answers the pending call of slot s
ConcReturns(s) ==
    /\ pool[s].i.pc = "await"
    /\ pool[s].arrived = <<>>
    /\ \E reply \in ConcAnswers(pool[s].i.calls[Len(pool[s].i.calls)]) :
         pool' = [pool EXCEPT ![s].arrived = <<reply>>]
    /\ UNCHANGED <<inv, server, conns, table>>

\* the event loop resumes the handler of slot s
ConcResume(s) ==
    /\ Runnable(pool, s)
    /\ pool' = ResumeIn(pool, s)
    /\ UNCHANGED <<inv, server, conns, table>>

\* the response of slot s has been delivered
ConcDeliver(s) ==
    /\ pool[s].i.pc = "done"
    /\ pool' = [pool EXCEPT ![s] = FreeSlot]
    /\ UNCHANGED <<inv, server, conns, table>>

InitConc ==
    /\ inv = Idle
    /\ server \in Variants
    /\ conns = <<>>
    /\ table = NoConns
    /\ pool = [s \in Slots |-> FreeSlot]

NextConc ==
    \/ \E s \in Slots : ConcInvoke(s)
    \/ \E s \in Slots : ConcReturns(s)
    \/ \E s \in Slots : ConcResume(s)
    \/ \E s \in Slots : ConcDeliver(s)

SpecConc == InitConc /\ [][NextConc]_vars


\* Concurrent invocations together with the opening and closing of streaming
\* sessions.  The requests are one per tool of the server's switch and one for
\* a name outside it; the upstream answers with the failure or with one
\* success, and findCards also with no ids.
LiveArgs(name) ==
    CASE name = "answerCard" -> Obj([cardId |-> Num(7), ease |-> Num(3)])
      [] name = "getNoteInfo" -> Obj([noteId |-> Num(42)])
      [] name = "addNote" -> NoteArgs
      [] OTHER -> Undef

LiveRequests(variant) ==
    {ToolCall(variant, name, LiveArgs(name)) : name \in Catalog(variant) \cup {"deleteDeck"}}

LiveAnswers(call) ==
    {r \in ConcAnswers(call) :
        \/ Truthy(r.error)
        \/ r.result.t # "array"
        \/ Len(r.result.v) = 0 /\ call.action = "findCards"
        \/ Len(r.result.v) = 1 /\ call.action \in {"findCards", "cardsInfo", "addNotes",
                                                    "modelNames", "findModelsByName"}
        \/ call.action = "deckNames" /\ r.result.v = << <<"Default">> >>
        \/ call.action = "notesInfo" /\ r.result.v = <<NoteRecord>>
        \/ call.action = "answerCards" /\ r.result.v = <<Bool(TRUE)>>}

LiveInvoke(s) ==
    /\ pool[s].i.pc = "idle"
    /\ \E i \in LiveRequests(server) : pool' = [pool EXCEPT ![s] = [i |-> i, arrived |-> <<>>]]
    /\ UNCHANGED <<inv, server, conns, table>>

\* the upstream answers the pending call of slot s; nothing obliges it to
LiveReturns(s) ==
    /\ pool[s].i.pc = "await"
    /\ pool[s].arrived = <<>>
    /\ \E reply \in LiveAnswers(pool[s].i.calls[Len(pool[s].i.calls)]) :
         pool' = [pool EXCEPT ![s].arrived = <<reply>>]
    /\ UNCHANGED <<inv, server, conns, table>>

NextLive ==
    \/ \E s \in Slots : LiveInvoke(s)
    \/ \E s \in Slots : LiveReturns(s)
    \/ \E s \in Slots : ConcResume(s)
    \/ \E s \in Slots : ConcDeliver(s)
    \/ Len(conns) < MaxLiveConn /\ HttpOpen
    \/ \E c \in 1..Len(conns) : HttpClose(c)
    \/ Len(conns) < MaxLiveConn /\ SseOpen
    \/ \E c \in 1..Len(conns) : SseClose(c)

\* the event loop runs every continuation whose awaited promise has settled
SpecLive ==
    /\ InitConc
    /\ [][NextLive]_vars
    /\ \A s \in Slots : WF_vars(ConcResume(s))

(***************************************************************************)
(* Properties of the request forwarder and of the tool dispatchers,        *)
(* checked under SpecTools.                                                *)
(***************************************************************************)
Failed(reply) == reply.error.t # "null"

IsToolCall == inv.pc # "idle" /\ inv.kind = "tool"

InSeq(x, s) == \E k \in 1..Len(s) : s[k] = x

\* C1: in every variant, a reply with a non-null error makes the forwarder
\* throw (no value is returned for it, the invocation ends in an error) and a
\* reply with a null error makes it return the reply's result unchanged.
C1_ForwarderSurfacesError ==
    \A k \in 1..Len(inv.replies) :
        IF Failed(inv.replies[k])
        THEN k > Len(inv.rets) /\ inv.pc = "done" /\ inv.resp.kind = "error"
        ELSE k <= Len(inv.rets) /\ inv.rets[k] = inv.replies[k].result

\* C2: a tool call whose name is outside the catalog ends at once with an
\* error response, has issued no upstream call, and the server goes on to
\* take the next request.
C2_UnknownToolIsError ==
    (IsToolCall /\ inv.name \notin Catalog(inv.variant)) =>
        /\ inv.pc = "done"
        /\ inv.resp.kind = "error"
        /\ inv.calls = <<>>
        /\ ENABLED NextRequest

C2_Witness ==
    /\ inv.pc = "done"
    /\ inv.kind = "tool"
    /\ inv.name \notin Catalog(inv.variant)
    /\ inv.resp.kind = "error"
    /\ inv.calls = <<>>

ZeroCountMessage(body) ==
    \/ "dueCards" \in DOMAIN body /\ body.dueCards = 0
    \/ "newCards" \in DOMAIN body /\ body.newCards = 0
    \/ "noCardsDue" \in DOMAIN body

\* C5: in every variant, when findCards answers with zero ids, getDueCards /
\* getNewCards returns a zero-count message and issues no cardsInfo call.
C5_ZeroIdsNoDetailsCall ==
    (/\ IsToolCall
     /\ inv.name \in {"getDueCards", "getNewCards"} \cap Catalog(inv.variant)
     /\ Len(inv.replies) >= 1
     /\ inv.replies[1] = Ok(Arr(<<>>))) =>
        /\ \A k \in 1..Len(inv.calls) : inv.calls[k].action # "cardsInfo"
        /\ inv.pc = "done"
        /\ inv.resp.kind = "result"
        /\ ZeroCountMessage(inv.resp.body)

\* C6: a tool invocation or direct HTTP API request one of whose upstream
\* calls was answered with a non-null error ends with an error response.
C6_UpstreamErrorReachesCaller ==
    (/\ inv.pc = "done"
     /\ inv.kind \in {"tool", "endpoint"}
     /\ \E k \in 1..Len(inv.replies) : Failed(inv.replies[k])) =>
        inv.resp.kind = "error"

InNoBucket(deck, organized, except) ==
    \A key \in DOMAIN organized \ except : ~InSeq(deck, organized[key])

\* C7: listDecks answers every list of deck names with a summary in which a
\* name containing "::" is in the bucket of the text before its first "::",
\* in no other bucket and not in mainDecks, and a name without "::" is in
\* mainDecks and in no bucket.
C7_ListDecksGrouping ==
    (/\ inv.pc = "done"
     /\ inv.kind = "tool"
     /\ inv.name = "listDecks"
     /\ inv.variant \in {"stdio", "json"}
     /\ ~Failed(inv.replies[1])) =>
        /\ inv.resp.kind = "result"
        /\ \A i \in 1..Len(inv.replies[1].result.v) :
              LET deck == inv.replies[1].result.v[i]
                  mainDecks == inv.resp.body.mainDecks
                  organized == inv.resp.body.organizedDecks
              IN IF IncludesSep(deck)
                 THEN /\ SplitHead(deck) \in DOMAIN organized
                      /\ InSeq(deck, organized[SplitHead(deck)])
                      /\ InNoBucket(deck, organized, {SplitHead(deck)})
                      /\ ~InSeq(deck, mainDecks)
                 ELSE /\ InSeq(deck, mainDecks)
                      /\ InNoBucket(deck, organized, {})

ExpectedLabels == <<"Again (failed)", "Hard", "Good", "Easy">>

IsStdioAnswer ==
    inv.pc = "done" /\ inv.variant = "stdio" /\ inv.kind = "tool" /\ inv.name = "answerCard"

\* C8: answerCard labels ease 1, 2, 3, 4 as "Again (failed)", "Hard", "Good",
\* "Easy"; for any other ease, or none, the response has no difficulty label
\* and the invocation still returns a result.
C8_EaseLabels ==
    IsStdioAnswer =>
        LET ease == Arg(inv.args, "ease")
        IN /\ inv.resp.kind = "result"
           /\ IF ease.t = "number" /\ ease.v \in 1..4
              THEN /\ "difficulty" \in DOMAIN inv.resp.body
                   /\ inv.resp.body.difficulty = Str(ExpectedLabels[ease.v])
              ELSE "difficulty" \notin DOMAIN inv.resp.body

C8_Witness ==
    /\ IsStdioAnswer
    /\ Arg(inv.args, "ease") = Num(5)
    /\ inv.resp.kind = "result"
    /\ "difficulty" \notin DOMAIN inv.resp.body

FirstIds(ids, k) == [i \in 1..k |-> ids[i]]

\* C9: on the stdio server listDecks issues exactly one deckNames call,
\* getNoteInfo one notesInfo call with notes = [noteId], answerCard one
\* answerCards call with the answer {cardId, ease}; getDueCards / getNewCards
\* issue one findCards call and, only after its result, at most one cardsInfo
\* call whose cards are the first min(n, 5) ids of the result, in order.
C9_DocumentedUpstreamActions ==
    (IsToolCall /\ inv.variant = "stdio") =>
        CASE inv.name = "listDecks" ->
                inv.calls = <<[action |-> "deckNames", params |-> NoParams]>>
          [] inv.name = "getNoteInfo" ->
                inv.calls = <<[action |-> "notesInfo",
                               params |-> [notes |-> <<Arg(inv.args, "noteId")>>]]>>
          [] inv.name = "answerCard" ->
                inv.calls = <<[action |-> "answerCards",
                               params |-> [answers |-> <<[cardId |-> Arg(inv.args, "cardId"),
                                                          ease |-> Arg(inv.args, "ease")]>>]]>>
          [] inv.name \in {"getDueCards", "getNewCards"} ->
                /\ Len(inv.calls) \in {1, 2}
                /\ inv.calls[1].action = "findCards"
                /\ Len(inv.calls) = 2 =>
                      /\ Len(inv.replies) >= 1
                      /\ inv.replies[1].result.t = "array"
                      /\ LET ids == inv.replies[1].result.v
                         IN inv.calls[2] =
                               [action |-> "cardsInfo",
                                params |-> [cards |-> Arr(FirstIds(ids, Min(Len(ids), 5)))]]
          [] OTHER -> inv.calls = <<>>

C9_Witness ==
    /\ inv.pc = "done"
    /\ inv.variant = "stdio"
    /\ inv.kind = "tool"
    /\ inv.name = "getDueCards"
    /\ Len(inv.calls) = 2
    /\ Len(inv.replies[1].result.v) > 5

\* C10: no upstream request is sent twice and an invocation issues at most
\* two upstream calls, whether they succeed or fail.
C10_NoRetries ==
    /\ Len(inv.calls) <= 2
    /\ Len(inv.replies) <= Len(inv.calls)
    /\ \A i, j \in 1..Len(inv.calls) : i < j => inv.calls[i] # inv.calls[j]

C10_Witness ==
    /\ inv.pc = "done"
    /\ Len(inv.calls) = 2
    /\ Len(inv.replies) = 2
    /\ Failed(inv.replies[2])


\* the tools the README documents
ReadmeTools == {"listDecks", "getDueCards", "getNewCards", "getNoteInfo", "answerCard"}

IsListTools ==
    /\ inv.pc = "done"
    /\ \/ inv.kind = "list"
       \/ inv.kind = "rpc" /\ inv.method = "tools/list"

\* C13: on every server a list-tools request is answered, without any
\* upstream call, with the catalog of exactly the five README tools.
C13_CatalogIsReadmeTools ==
    IsListTools =>
        /\ inv.calls = <<>>
        /\ inv.resp.kind = "result"
        /\ inv.resp.body.tools = ReadmeTools

IsStdioFind ==
    IsToolCall /\ inv.variant = "stdio" /\ inv.name \in {"getDueCards", "getNewCards"}

\* the query the README and the input schema describe
ExpectedQuery(name, deckName) ==
    LET base == IF name = "getDueCards" THEN "is:due" ELSE "is:new"
    IN IF deckName.t = "undefined"
       THEN base
       ELSE base \o " deck:\"" \o deckName.v \o "\""

\* C14: getDueCards / getNewCards send the findCards query "is:due" /
\* "is:new" alone when no deckName argument is given and followed by
\* deck:"<deckName>" when one is given; the deck field of the response is the
\* given deckName, and "all decks" only when none was given.
C14_DeckFilter ==
    IsStdioFind =>
        LET deckName == Arg(inv.args, "deckName")
        IN /\ inv.calls[1] = [action |-> "findCards",
                              params |-> [query |-> ExpectedQuery(inv.name, deckName)]]
           /\ (inv.pc = "done" /\ inv.resp.kind = "result") =>
                 inv.resp.body.deck =
                    IF deckName.t = "undefined" THEN Str("all decks") ELSE deckName

\* C15: answerCard answers success: true only if the upstream's answerCards
\* reply carried no error and marked the card as answered.
C15_AnswerCardTruthful ==
    (/\ IsStdioAnswer
     /\ inv.resp.kind = "result"
     /\ "success" \in DOMAIN inv.resp.body
     /\ inv.resp.body.success = Bool(TRUE)) =>
        /\ ~Failed(inv.replies[1])
        /\ inv.replies[1].result = Arr(<<Bool(TRUE)>>)

IsFindThenInfo ==
    /\ inv.pc # "idle"
    /\ \/ inv.kind = "tool" /\ inv.name \in {"getDueCards", "getNewCards"} \cap Catalog(inv.variant)
       \/ inv.kind = "endpoint" /\ inv.name = "GET /due-cards"

\* C16: in getDueCards, getNewCards and GET /due-cards, when the upstream
\* answers findCards with an error the invocation ends with an error
\* response and no cardsInfo call is issued.
C16_AbortOnFirstFailure ==
    (IsFindThenInfo /\ Len(inv.replies) >= 1 /\ Failed(inv.replies[1])) =>
        /\ inv.pc = "done"
        /\ inv.resp.kind = "error"
        /\ Len(inv.calls) = 1

\* a JSON-RPC request to POST /sse of the simple HTTP server
IsHttpPost == inv.pc # "idle" /\ inv.variant = "http" /\ inv.kind \in {"tool", "rpc"}

KnownMethods == {"initialize", "tools/list", "tools/call", "resources/list"}

\* the request fails while a known method is handled: tools/call without
\* params, an unknown tool name, or an upstream reply with an error
HttpFailure ==
    /\ inv.method = "tools/call"
    /\ \/ ~inv.hasParams
       \/ inv.name \notin Catalog("http")
       \/ \E k \in 1..Len(inv.replies) : Failed(inv.replies[k])

\* C21: a request to POST /sse of the simple HTTP server gets one response,
\* none before the handler is done; the response carries the id of the
\* request (no id when the request had none); an unknown method gets an
\* error with code -32601 and no result; a failure while a known method is
\* handled gets an error with code -32603 and no result.
C21_JsonRpcResponses ==
    IsHttpPost =>
        IF inv.pc # "done" THEN inv.resp = NoResp
        ELSE /\ inv.resp.kind \in {"result", "error"}
             /\ IF inv.id = Undef THEN "id" \notin DOMAIN inv.resp
                ELSE "id" \in DOMAIN inv.resp /\ inv.resp.id = inv.id
             /\ inv.method \notin KnownMethods =>
                   /\ inv.resp.kind = "error"
                   /\ inv.resp.code = -32601
                   /\ "body" \notin DOMAIN inv.resp
             /\ (inv.method \in KnownMethods /\ HttpFailure) =>
                   /\ inv.resp.kind = "error"
                   /\ inv.resp.code = -32603
                   /\ "body" \notin DOMAIN inv.resp

\* a tools/call with id 7 whose upstream request failed was answered with
\* code -32603 and id 7
C21_Witness ==
    /\ IsHttpPost /\ inv.pc = "done"
    /\ inv.id = Num(7)
    /\ inv.name \in Catalog("http")
    /\ Len(inv.replies) > 0 /\ Failed(inv.replies[Len(inv.replies)])
    /\ inv.resp.kind = "error" /\ inv.resp.code = -32603
    /\ inv.resp.id = Num(7)

\* the tool names a list-tools request to the variant returns
Advertised(variant) ==
    IF variant = "http"
    THEN HttpPostHandler("tools/list", FALSE, "", Undef, <<>>).body.tools
    ELSE ListTools(variant).body.tools

\* the response is the error of the dispatcher's default branch
UnknownToolError(r) ==
    /\ r.kind = "error"
    /\ r.message \in {"Unknown tool", "Unknown tool: " \o inv.name}

\* C22: in every server variant, an invocation of a tool name that
\* list-tools returns never ends in the unknown-tool error, and an invocation
\* of any other name is not handled: it ends at once in that error.
C22_CatalogMatchesDispatcher ==
    IsToolCall =>
        IF inv.name \in Advertised(inv.variant)
        THEN inv.pc = "done" => ~UnknownToolError(inv.resp)
        ELSE inv.pc = "done" /\ inv.calls = <<>> /\ UnknownToolError(inv.resp)

\* getModel, advertised by the SSE server, was invoked and returned a result
C22_Witness ==
    /\ IsToolCall /\ inv.pc = "done"
    /\ inv.variant = "sse" /\ inv.name = "getModel"
    /\ inv.name \in Advertised(inv.variant)
    /\ inv.resp.kind = "result"

\* a getDueCards / getNewCards invocation of the stdio server that is done
\* after findCards returned n > 0 ids and cardsInfo one record per id asked
IsCountedCards ==
    /\ IsToolCall /\ inv.variant = "stdio" /\ inv.pc = "done"
    /\ inv.name \in {"getDueCards", "getNewCards"}
    /\ Len(inv.replies) = 2
    /\ ~Failed(inv.replies[1]) /\ Len(inv.replies[1].result.v) > 0
    /\ ~Failed(inv.replies[2])
    /\ Len(inv.replies[2].result.v) = Len(inv.calls[2].params.cards.v)

\* C23: for getDueCards / getNewCards of the stdio server with n > 0 ids
\* found, the reported total is n, remainingCards is max(0, n - 5) and
\* sampleCards has min(n, 5) entries, so that the total is the number of
\* sampleCards plus remainingCards.
C23_CardCounts ==
    IsCountedCards =>
        LET n == Len(inv.replies[1].result.v)
            body == inv.resp.body
            total == IF inv.name = "getDueCards" THEN body.totalDueCards
                     ELSE body.totalNewCards
        IN /\ inv.resp.kind = "result"
           /\ total = n
           /\ body.remainingCards = (IF n > 5 THEN n - 5 ELSE 0)
           /\ Len(body.sampleCards) = (IF n < 5 THEN n ELSE 5)
           /\ total = Len(body.sampleCards) + body.remainingCards

\* getNewCards found more ids than the sample holds and reported the rest
C23_Witness ==
    /\ IsCountedCards
    /\ inv.name = "getNewCards"
    /\ Len(inv.replies[1].result.v) > 5
    /\ inv.resp.body.remainingCards > 0
    /\ Len(inv.resp.body.sampleCards) = 5

\* a getNoteInfo invocation of the stdio server that is done
IsNoteInfoDone ==
    /\ IsToolCall /\ inv.variant = "stdio" /\ inv.name = "getNoteInfo"
    /\ inv.pc = "done"

\* the notesInfo call came back without an upstream error, with no list or
\* with an empty one
NoSuchNote(reply) ==
    /\ ~Failed(reply)
    /\ (Nullish(reply.result) \/ Len(reply.result.v) = 0)

\* C24: getNoteInfo returns the "Note not found" payload with the requested
\* noteId, without failing, exactly when notesInfo returned an empty or
\* absent list because there is no such note; otherwise it returns the
\* requested noteId with the modelName, tags, fields and cards of the first
\* returned note.
C24_NoteInfo ==
    IsNoteInfoDone =>
        LET noteId == Arg(inv.args, "noteId")
            reply == inv.replies[1]
            notFound == JsonStringify([error |-> Str("Note not found"), noteId |-> noteId])
        IN /\ inv.resp.kind = "result"
           /\ (inv.resp.body = notFound) <=> NoSuchNote(reply)
           /\ inv.resp.body # notFound =>
                 LET note == reply.result.v[1]
                 IN inv.resp.body =
                       JsonStringify([noteId |-> noteId,
                                      modelName |-> Prop(note, "modelName"),
                                      tags |-> Prop(note, "tags"),
                                      fields |-> Prop(note, "fields"),
                                      cards |-> Prop(note, "cards")])

\* the number of names in the buckets of the given keys
RECURSIVE BucketTotal(_, _)
BucketTotal(organized, keys) ==
    IF keys = {} THEN 0
    ELSE LET key == CHOOSE k \in keys : TRUE
         IN Len(organized[key]) + BucketTotal(organized, keys \ {key})

\* C25: listDecks answers every list of deck names the upstream returns
\* with a summary (it does not fail) in which totalDecks is the number of
\* names in mainDecks plus the number of names in all buckets of
\* organizedDecks, also for an empty parent name and for a parent named like
\* a built-in object property.
C25_ListDecksConservesCounts ==
    (/\ inv.pc = "done"
     /\ inv.kind = "tool"
     /\ inv.name = "listDecks"
     /\ inv.variant \in {"stdio", "json"}
     /\ ~Failed(inv.replies[1])) =>
        /\ inv.resp.kind = "result"
        /\ LET body == inv.resp.body
           IN body.totalDecks =
                 Len(body.mainDecks)
                 + BucketTotal(body.organizedDecks, DOMAIN body.organizedDecks)

\* a getDueCards invocation of the prose or JSON stdio variant that returned
\* card details
IsDueDetails ==
    /\ IsToolCall /\ inv.variant \in {"prose", "json"} /\ inv.name = "getDueCards"
    /\ inv.pc = "done" /\ inv.resp.kind = "result"
    /\ Len(inv.replies) = 2

\* the value of the first field of the k-th card the upstream returned
FirstFieldValue(k) ==
    inv.replies[2].result.v[k].v.fields.v[1].value.v.value

\* C26: in the prose and JSON stdio variants of getDueCards the content
\* shown for a card is its first field's value without its HTML tags, cut
\* to at most 100 characters; in the prose variant the "..." marker follows
\* exactly when the text without tags was longer than 100 characters.
C26_ContentTruncation ==
    IsDueDetails =>
        LET shown == IF inv.variant = "prose" THEN inv.resp.body.cardDetails
                     ELSE inv.resp.body.sampleCards
        IN \A k \in 1..Len(shown) :
              LET stripped == StripTags(FirstFieldValue(k).v)
              IN /\ shown[k].content.t = "text"
                 /\ \A r \in 1..Len(shown[k].content.v) : ~shown[k].content.v[r].tag
                 /\ TextLen(shown[k].content.v) = Min(TextLen(stripped), 100)
                 /\ inv.variant = "prose" =>
                       (shown[k].ellipsis <=> TextLen(stripped) > 100)

IsListResources == inv.pc # "idle" /\ inv.kind = "listResources"

IsReadResource == inv.pc # "idle" /\ inv.kind = "readResource"

\* a read-resource request for the URI, whatever the upstream answers to
\* the call it may issue, does not end in "resource not found"
Accepted(variant, uri) ==
    LET first == ReadResource(variant, uri, <<>>)
    IN /\ first # Throw("resource not found")
       /\ first.k = "call" =>
             \A reply \in Answers([action |-> first.action, params |-> first.params]) :
                ReadResource(variant, uri, <<ankiRequest(variant, reply).v>>)
                   # Throw("resource not found")

\* C27: on the SSE server every URI that list-resources returns is accepted
\* by read-resource, and a read-resource request for a URI that starts with
\* neither anki://decks/ nor anki://models/ fails without an upstream call;
\* a URI with one of the prefixes never ends in "resource not found".  On
\* the stdio server list-resources returns the empty list and every
\* read-resource request fails.
C27_ResourcesConsistent ==
    /\ (IsListResources /\ inv.variant = "sse" /\ inv.pc = "done"
                        /\ inv.resp.kind = "result") =>
          \A k \in 1..Len(inv.resp.body.resources) :
             Accepted("sse", inv.resp.body.resources[k].uri)
    /\ (IsReadResource /\ inv.variant = "sse") =>
          LET uri == inv.args.v.uri
          IN IF StartsWith(uri, UriPrefix("decks")) \/ StartsWith(uri, UriPrefix("models"))
             THEN inv.pc = "done" =>
                     ~(inv.resp.kind = "error" /\ inv.resp.message = "resource not found")
             ELSE /\ inv.pc = "done"
                  /\ inv.resp.kind = "error"
                  /\ inv.calls = <<>>
    /\ (IsListResources /\ inv.variant = "stdio") =>
          /\ inv.pc = "done"
          /\ inv.resp.kind = "result"
          /\ inv.resp.body.resources = <<>>
    /\ (IsReadResource /\ inv.variant = "stdio") =>
          /\ inv.pc = "done"
          /\ inv.resp.kind = "error"
          /\ inv.calls = <<>>

\* list-resources of the SSE server returned the URIs of two decks and a model
C27_Witness ==
    /\ IsListResources /\ inv.variant = "sse" /\ inv.pc = "done"
    /\ inv.resp.kind = "result"
    /\ Len(inv.resp.body.resources) = 3
    /\ inv.resp.body.resources[3].uri = <<"anki://", "models/", "5">>

(***************************************************************************)
(* Properties of the session tables, checked under SpecSess.               *)
(***************************************************************************)
\* C3: a POST message that names a session whose transport has closed gets
\* a not-found error and reaches no handler (no upstream call, no result).
C3_ClosedSessionNotFound ==
    (inv.pc # "idle" /\ inv.stale) =>
        /\ inv.pc = "done"
        /\ inv.resp.kind = "error"
        /\ inv.resp.status = 404
        /\ inv.calls = <<>>

EntriesOf(c) == {sid \in DOMAIN table : table[sid] = c}

\* C4: the session table holds at most one entry per connection and no
\* entry for a connection that has closed or whose write has failed.
C4_SessionTableInvariant ==
    \A c \in 1..Len(conns) :
        /\ Cardinality(EntriesOf(c)) <= 1
        /\ (conns[c].state = "closed" \/ conns[c].failed) => EntriesOf(c) = {}

\* C17: on the SSE server a POST whose sessionId is that of a live connection
\* is handed to the transport registered by that connection and to no other.
C17_SessionRouting ==
    [][(inv.pc = "idle" /\ inv'.pc = "done" /\ inv'.kind = "post") =>
          \A c \in 1..Len(conns) :
              (conns[c].sid = inv'.sid /\ conns[c].state = "live") =>
                  /\ "to" \in DOMAIN inv'.resp
                  /\ inv'.resp.to = c]_vars

\* a message for the first of two live sessions reaches the first transport
C17_Witness ==
    /\ inv.pc = "done"
    /\ inv.kind = "post"
    /\ Len(conns) = 2
    /\ conns[1].state = "live"
    /\ conns[2].state = "live"
    /\ inv.sid = conns[1].sid
    /\ inv.resp.kind = "routed"
    /\ inv.resp.to = 1

\* C18: a connection whose set-up failed after its transport was registered
\* (connect or start threw) has no entry in the session table once its
\* GET /sse handler has finished.
C18_FailedSetupLeavesNoSession ==
    \A c \in 1..Len(conns) : conns[c].state = "broken" => EntriesOf(c) = {}

\* C19: on the simple HTTP server two live connections never hold the same
\* session token, and a step that closes or errors a connection leaves the
\* table entry of every other connection as it was.
C19_TokenIsolation ==
    /\ [](server = "http" =>
            \A c, d \in 1..Len(conns) :
                (c # d /\ conns[c].state = "live" /\ conns[d].state = "live") =>
                    conns[c].sid # conns[d].sid)
    /\ [][server = "http" =>
            \A c \in 1..Len(conns) :
                (conns[c].state = "live" /\ conns'[c].state \in {"closed", "errored"}) =>
                    \A sid \in DOMAIN table :
                        table[sid] # c => (sid \in DOMAIN table' /\ table'[sid] = table[sid])]_vars

\* C20: on the simple HTTP server a live connection whose writes have not
\* failed has its timer running and its token in the table, so that every
\* tick writes a keepalive to it; a keepalive is written to a connection only
\* while the entry it registered is in the table, and a timer whose token is
\* gone is cancelled by its next tick; a failed write removes the entry and
\* cancels the timer.
C20_KeepaliveTimer ==
    /\ [](server = "http" =>
            \A c \in 1..Len(conns) :
                /\ (conns[c].state = "live" /\ ~conns[c].failed) =>
                       (conns[c].timer /\ conns[c].sid \in DOMAIN table)
                /\ (conns[c].timer /\ conns[c].sid \notin DOMAIN table) =>
                       ENABLED (HttpTick(c) /\ ~conns'[c].timer))
    /\ [][server = "http" =>
            \A c \in 1..Len(conns) :
                /\ conns'[c].beat # conns[c].beat => EntriesOf(c) # {}
                /\ (conns'[c].failed /\ ~conns[c].failed) =>
                       (conns[c].sid \notin DOMAIN table' /\ ~conns'[c].timer)]_vars

(***************************************************************************)
(* Properties of concurrent invocations, checked under SpecConc.           *)
(***************************************************************************)
\* the invocation i continued alone with the given upstream replies
RECURSIVE Replay(_, _)
Replay(i, replies) ==
    IF replies = <<>> \/ i.pc # "await"
    THEN i
    ELSE Replay(Settle(i, Head(replies)), Tail(replies))

\* the same request run alone against the same upstream answers
Alone(i) == Replay(ToolCall(i.variant, i.name, i.args), i.replies)

\* C11: under every interleaving of two concurrent tool invocations, the
\* upstream requests and the response of each are those of the same request
\* run alone against the same upstream answers, and a step of one invocation
\* changes nothing of the other.
C11_IndependentInvocations ==
    /\ [](\A s \in Slots : pool[s].i.pc # "idle" => pool[s].i = Alone(pool[s].i))
    /\ [][\E s \in Slots : \A t \in Slots \ {s} : pool'[t] = pool[t]]_vars

C11_Witness ==
    /\ pool[1].i.pc = "done"
    /\ pool[2].i.pc = "await"
    /\ pool[1].i.name = pool[2].i.name
    /\ Len(pool[1].i.replies) = 2
    /\ Len(pool[2].i.replies) = 1
    /\ pool[1].i.replies[1] # pool[2].i.replies[1]

(***************************************************************************)
(* Progress of concurrent invocations, checked under SpecLive.             *)
(***************************************************************************)
\* the invocation in slot s waits for an upstream answer that has not arrived
Pending(s) == pool[s].i.pc = "await" /\ pool[s].arrived = <<>>

\* C12: an invocation each of whose upstream calls is eventually answered
\* eventually has its response, whether or not the upstream ever answers the
\* other invocation; and while an invocation waits, a new request is taken
\* in a free slot, a streaming session can be opened and a live one closed.
C12_SlowCallBlocksOnlyItself ==
    /\ \A s \in Slots :
          ([]<>~Pending(s)) => (pool[s].i.pc = "await" ~> pool[s].i.pc = "done")
    /\ [](\A s \in Slots : Pending(s) =>
             /\ \A t \in Slots : pool[t].i.pc = "idle" => ENABLED LiveInvoke(t)
             /\ \A t \in Slots : pool[t].i.pc = "await" /\ pool[t].arrived # <<>> =>
                   ENABLED ConcResume(t)
             /\ (server = "http" /\ Len(conns) < MaxLiveConn) => ENABLED HttpOpen
             /\ (server = "sse" /\ Len(conns) < MaxLiveConn) => ENABLED SseOpen
             /\ \A c \in 1..Len(conns) :
                   /\ (server = "http" /\ conns[c].state = "live") => ENABLED HttpClose(c)
                   /\ (server = "sse" /\ conns[c].state = "live") => ENABLED SseClose(c))

\* one invocation has finished a two-call tool while the other still waits
\* for its first answer, and a session is open
C12_Witness ==
    /\ Pending(1)
    /\ pool[1].i.replies = <<>>
    /\ pool[2].i.pc = "done"
    /\ Len(pool[2].i.replies) = 2
    /\ \E c \in 1..Len(conns) : conns[c].state = "live"

=============================================================================
